---- MODULE Spec2Model ----
(***************************************************************************)
(* Model of backend/main.py: the admin backend over the compressor task    *)
(* ledger (tasks, fs.files, fs.chunks), its batch deletion, its paginated   *)
(* file listing and its composite health report.                           *)
(*                                                                         *)
(* An id string is the sequence of its characters' digit values, and an     *)
(* ObjectId is the record [oid |-> digits]: ObjectId() parses the one into  *)
(* the other and raises on a text that is not OidLen hex digits.            *)
(***************************************************************************)
EXTENDS Integers, Sequences, FiniteSets, TLC

\* Number of task records the ledger may hold.
NumTasks == 2

\* Number of fs.chunks records of one blob.
MaxChunks == 2

None == "None"

\* Request handlers running at the same time (one request thread each).
Callers == {"c1", "c2"}

VARIABLES
    ADMIN_SECRET,   \* main.py:36, None when the variable is unset
    startup,        \* outcome of main.py:48-71
    world,          \* what a probe of the database and of each service meets
    holidays,       \* db.holidays, main.py:63
    tasks,          \* compressor_db['tasks']
    fs_files,       \* compressor_db['fs.files']
    fs_chunks,      \* compressor_db['fs.chunks']
    pc,             \* position of each admin_batch_delete call
    request,        \* its X-Admin-Secret header and JSON body
    found,          \* the documents its find() matched (line 244)
    cursor,         \* those the loop has still to visit
    task,           \* the document of the current loop iteration
    deleted_count,  \* its deleted_count
    response,       \* its (status code, body) once it has returned
    last            \* the last request served by a single-step handler

vars == <<ADMIN_SECRET, startup, world, holidays, tasks, fs_files, fs_chunks, pc, request,
          found, cursor, task, deleted_count, response, last>>

store == <<tasks, fs_files, fs_chunks>>

batch == <<pc, request, found, cursor, task, deleted_count, response>>

config == <<ADMIN_SECRET, startup>>

-----------------------------------------------------------------------------
(* Identifiers *)

\* Number of hexadecimal digits of the text of an ObjectId.
OidLen == 24

HexDigits == 0 .. 15

\* The text of the ObjectId numbered i: OidLen hex digits, the last one i.
Hex(i) == [k \in 1 .. OidLen |-> IF k = OidLen THEN i ELSE 0]

\* Two texts that are no ObjectId: one too short, one with a letter past f.
TooShort == <<1>>
NotHex == [k \in 1 .. OidLen |-> IF k = OidLen THEN 16 ELSE 0]

\* The id strings a request may carry: the ids of the tasks, one well-formed
\* id of no task, and the two malformed texts.
WellFormedIds == {Hex(i) : i \in 1 .. NumTasks + 1}
IdStrings == WellFormedIds \cup {TooShort, NotHex}

\* bson.objectid.ObjectId.is_valid
IsValidOid(tid) == Len(tid) = OidLen /\ \A k \in 1 .. Len(tid) : tid[k] \in HexDigits

\* bson.objectid.ObjectId(tid); it raises InvalidId when ~IsValidOid(tid).
ObjectId(tid) == [oid |-> tid]

\* str(oid)
Str(o) == o.oid

\* The value of task.get('result_file_id') when the field is absent.
NoOid == [oid |-> <<>>]

TaskOid(i) == ObjectId(Hex(i))

\* The blob a producer stored for task i.
BlobOid(i) == ObjectId(Hex(NumTasks + 1 + i))

-----------------------------------------------------------------------------
(* Configuration *)

Secrets == {"s3cret"}

\* request.headers.get('X-Admin-Secret'): absent, empty, or some text.
Headers == {None, "", "s3cret", "guess"}

\* main.py:48-71: no MONGO_URI (client stays None), the ping raised (client
\* is set, the collections stay None), or everything is set.
Startups == {"no_uri", "ping_failed", "ok"}

client_is_None == startup = "no_uri"

collections_are_None == startup # "ok"

\* The guard every admin handler starts with.
MutAuthorizedAnyHeader(secret) == secret # None /\ secret # ""
Authorized(secret) == ~(secret = None \/ secret = "" \/ secret # ADMIN_SECRET)

-----------------------------------------------------------------------------
(* Documents *)

\* A task document a producer wrote.  The status texts of the source are
\* written in English here ("completed", "failed", "processing", "waiting");
\* result_file_id is NoOid when the field is absent.
TaskDoc(i, type, status, created_at, rfid) ==
    [_id |-> TaskOid(i), type |-> type, status |-> status,
     created_at |-> created_at, result_file_id |-> rfid]

NoTask == [_id |-> NoOid, type |-> "", status |-> "", created_at |-> 0,
           result_file_id |-> NoOid]

\* fs.files document of blob b, and its fs.chunks documents.
FileDoc(b, length) == [_id |-> b, length |-> length]
ChunksOf(b) == {[files_id |-> b, n |-> k] : k \in 0 .. MaxChunks - 1}

\* A completed compression of task i, its blob stored.
Completed(i) == TaskDoc(i, "compress", "completed", i, BlobOid(i))
\* A failed compression of task i: no result_file_id.
Failed(i) == TaskDoc(i, "compress", "failed", i, NoOid)

\* The ledgers the batch deletion starts from: task 1 is completed with its
\* blob stored, every other task is completed with its blob stored or failed
\* with none; every result_file_id has its blob.
InitialLedgers ==
    {l \in [1 .. NumTasks -> {"done", "failed"}] : l[1] = "done"}

-----------------------------------------------------------------------------
(* The store's operations, on the collections' contents *)

\* tasks_collection.find({'_id': {'$in': object_ids}})
find_in(coll, object_ids) == {d \in coll : d._id \in object_ids}

\* coll.delete_one({'_id': id}): ids are unique, so at most one document.
delete_one(coll, id) == {d \in coll : d._id # id}

MutDeleteManyFirstOnly(coll, id) == {d \in coll : d.files_id # id \/ d.n # 0}
\* fs_chunks.delete_many({'files_id': id})
delete_many(coll, id) == {d \in coll : d.files_id # id}

-----------------------------------------------------------------------------
(* admin_batch_delete, main.py:225-265 *)

NoRequest == [secret |-> None, json |-> "none", task_ids |-> {}]

\* The JSON bodies: no JSON object at all, an object without task_ids, an
\* object whose task_ids holds well-formed ids, or one that holds a malformed
\* text, alone or beside the id of a task.
Body(json, ids) == [json |-> json, task_ids |-> ids]

Bodies ==
    {Body("null", {}), Body("object", {})}
    \cup {Body("task_ids", S) : S \in SUBSET WellFormedIds}
    \cup {Body("task_ids", {TooShort}), Body("task_ids", {Hex(1), NotHex})}

\* The requests: every body with the configured secret's text, and under
\* every other header the body naming every id.
Requests ==
    {[secret |-> "s3cret", json |-> b.json, task_ids |-> b.task_ids] : b \in Bodies}
    \cup {[secret |-> h, json |-> "task_ids", task_ids |-> WellFormedIds] :
             h \in Headers \ {"s3cret"}}

NoResponse == [code |-> 0, error |-> "", deleted_count |-> 0]
Error(code, msg) == [code |-> code, error |-> msg, deleted_count |-> 0]
Success(n) == [code |-> 200, error |-> "", deleted_count |-> n]

\* A call that has passed its checks and has not returned.
Running == {"find", "delete_file", "delete_chunks", "delete_task"}

MutChecksNoEmptyCheck(req) ==
    IF ~Authorized(req.secret) THEN [code |-> 403, error |-> "unauthorized", deleted_count |-> 0]
    ELSE IF collections_are_None
         THEN [code |-> 500, error |-> "database not initialized", deleted_count |-> 0]
    ELSE IF req.json = "null" THEN [code |-> 500, error |-> "AttributeError", deleted_count |-> 0]
    ELSE IF \E tid \in req.task_ids : ~IsValidOid(tid)
         THEN [code |-> 500, error |-> "InvalidId", deleted_count |-> 0]
    ELSE [code |-> 0, error |-> "", deleted_count |-> 0]
\* Lines 226-241: the checks before the store is touched.  The result is the
\* response the call returns at once, or NoResponse when it goes on.
Checks(req) ==
    IF ~Authorized(req.secret) THEN Error(403, "unauthorized")
    ELSE IF collections_are_None THEN Error(500, "database not initialized")
    ELSE IF req.json = "null" THEN Error(500, "AttributeError")
    ELSE IF req.task_ids = {} THEN Error(400, "no task ids")
    ELSE IF \E tid \in req.task_ids : ~IsValidOid(tid) THEN Error(500, "InvalidId")
    ELSE NoResponse

\* A request arrives at an idle handler thread.
Begin(c) ==
    /\ pc[c] = "idle"
    /\ \E req \in Requests :
         LET res == Checks(req)
         IN /\ request' = [request EXCEPT ![c] = req]
            /\ response' = [response EXCEPT ![c] = res]
            /\ pc' = [pc EXCEPT ![c] = IF res = NoResponse THEN "find" ELSE "done"]
    /\ UNCHANGED <<config, holidays, world, store, found, cursor, task, deleted_count, last>>

\* The for loop's step to its next document (line 250), or the return of
\* lines 260-263 when the cursor is exhausted.  docs is what the cursor has
\* left, n the deleted_count so far.
Advance(c, docs, n) ==
    IF docs = {}
    THEN /\ pc' = [pc EXCEPT ![c] = "done"]
         /\ response' = [response EXCEPT ![c] = Success(n)]
         /\ cursor' = [cursor EXCEPT ![c] = {}]
         /\ task' = [task EXCEPT ![c] = NoTask]
    ELSE \E t \in docs :
         /\ cursor' = [cursor EXCEPT ![c] = docs \ {t}]
         /\ task' = [task EXCEPT ![c] = t]
         /\ pc' = [pc EXCEPT ![c] =
                IF t.result_file_id # NoOid THEN "delete_file" ELSE "delete_task"]
         /\ UNCHANGED response

\* Line 244, run by the loop's first step: the cursor holds the tasks found.
Find(c) ==
    /\ pc[c] = "find"
    /\ LET docs == find_in(tasks, {ObjectId(tid) : tid \in request[c].task_ids})
       IN /\ found' = [found EXCEPT ![c] = docs]
          /\ Advance(c, docs, 0)
    /\ UNCHANGED <<config, holidays, world, store, request, deleted_count, last>>

MutDeleteFileWholeBatch(c) ==
    /\ pc[c] = "delete_file"
    /\ fs_files' = {f \in fs_files :
                      \A t \in cursor[c] \cup {task[c]} : f._id # t.result_file_id}
    /\ pc' = [pc EXCEPT ![c] = "delete_chunks"]
    /\ UNCHANGED <<config, holidays, world, tasks, fs_chunks, request, found, cursor, task, deleted_count,
                   response, last>>
MutDeleteFileSkipped(c) ==
    /\ pc[c] = "delete_file"
    /\ pc' = [pc EXCEPT ![c] = "delete_chunks"]
    /\ UNCHANGED <<config, holidays, world, store, request, found, cursor, task, deleted_count,
                   response, last>>
\* Line 253
DeleteFile(c) ==
    /\ pc[c] = "delete_file"
    /\ fs_files' = delete_one(fs_files, task[c].result_file_id)
    /\ pc' = [pc EXCEPT ![c] = "delete_chunks"]
    /\ UNCHANGED <<config, holidays, world, tasks, fs_chunks, request, found, cursor, task, deleted_count,
                   response, last>>

MutDeleteChunksThenNext(c) ==
    /\ pc[c] = "delete_chunks"
    /\ fs_chunks' = {d \in fs_chunks : d.files_id # task[c].result_file_id}
    /\ Advance(c, cursor[c], deleted_count[c])
    /\ UNCHANGED <<config, holidays, world, tasks, fs_files, request, found, deleted_count, last>>
\* Line 254
DeleteChunks(c) ==
    /\ pc[c] = "delete_chunks"
    /\ fs_chunks' = delete_many(fs_chunks, task[c].result_file_id)
    /\ pc' = [pc EXCEPT ![c] = "delete_task"]
    /\ UNCHANGED <<config, holidays, world, tasks, fs_files, request, found, cursor, task, deleted_count,
                   response, last>>

MutDeleteTaskRaisesIfGone(c) ==
    /\ pc[c] = "delete_task"
    /\ IF task[c] \in tasks
       THEN /\ tasks' = delete_one(tasks, task[c]._id)
            /\ deleted_count' = [deleted_count EXCEPT ![c] = @ + 1]
            /\ Advance(c, cursor[c], deleted_count[c] + 1)
       ELSE /\ pc' = [pc EXCEPT ![c] = "done"]
            /\ response' = [response EXCEPT ![c] = Error(500, "WriteConflict")]
            /\ cursor' = [cursor EXCEPT ![c] = {}]
            /\ UNCHANGED <<tasks, deleted_count, task>>
    /\ UNCHANGED <<config, holidays, world, fs_files, fs_chunks, request, found, last>>
MutDeleteTaskCountsFiles(c) ==
    /\ pc[c] = "delete_task"
    /\ tasks' = delete_one(tasks, task[c]._id)
    /\ LET n == IF task[c].result_file_id # NoOid THEN deleted_count[c] + 1
                ELSE deleted_count[c]
       IN /\ deleted_count' = [deleted_count EXCEPT ![c] = n]
          /\ Advance(c, cursor[c], n)
    /\ UNCHANGED <<config, holidays, world, fs_files, fs_chunks, request, found, last>>
\* Lines 257-258, and the loop's step to the next document.
DeleteTask(c) ==
    /\ pc[c] = "delete_task"
    /\ tasks' = delete_one(tasks, task[c]._id)
    /\ deleted_count' = [deleted_count EXCEPT ![c] = @ + 1]
    /\ Advance(c, cursor[c], deleted_count[c] + 1)
    /\ UNCHANGED <<config, holidays, world, fs_files, fs_chunks, request, found, last>>

\* Lines 264-265: a store operation raises, the call returns the 500 and its
\* cursor is dropped; task keeps the document it was at.  A delete_many that
\* raises may have removed some of the chunks it matched.
StoreError(c) ==
    /\ pc[c] \in Running
    /\ pc' = [pc EXCEPT ![c] = "done"]
    /\ response' = [response EXCEPT ![c] = Error(500, "PyMongoError")]
    /\ cursor' = [cursor EXCEPT ![c] = {}]
    /\ IF pc[c] = "delete_chunks"
       THEN \E gone \in SUBSET {d \in fs_chunks : d.files_id = task[c].result_file_id} :
              fs_chunks' = fs_chunks \ gone
       ELSE UNCHANGED fs_chunks
    /\ UNCHANGED <<config, holidays, world, tasks, fs_files, request, found, task, deleted_count, last>>

\* The process is killed between two store operations: no response; task
\* keeps the document it was at.
Crash(c) ==
    /\ pc[c] \in Running
    /\ pc' = [pc EXCEPT ![c] = "crashed"]
    /\ cursor' = [cursor EXCEPT ![c] = {}]
    /\ UNCHANGED <<config, holidays, world, store, request, found, task, deleted_count, response, last>>

-----------------------------------------------------------------------------
(* get_system_health, main.py:269-406 *)

\* A message: its text and, for 'HTTP <code>', the code (0 otherwise).
Msg(text) == <<text, 0>>
HttpMsg(code) == <<"HTTP", code>>

\* dict.get(key, default)
Get(d, key, default) == IF key \in DOMAIN d THEN d[key] ELSE default

EmptyDict == [k \in {} |-> 0]

\* What the database answers the probe of lines 282-318: everything, or the
\* ping raises, or a count_documents raises, or the dbStats command raises.
DbOutcomes == {"ok", "ping_raises", "count_raises", "dbstats_raises"}

\* What an HTTP probe meets: a response (its status code and body), the
\* timeout, or another transport error.
HttpResponse(code, body) == [kind |-> "response", code |-> code, body |-> body]
Timeout == [kind |-> "timeout", code |-> 0, body |-> [json |-> "none", fields |-> EmptyDict]]
ConnectionError == [kind |-> "error", code |-> 0, body |-> [json |-> "none", fields |-> EmptyDict]]

\* The bodies of /storage-stats: a JSON object with every storage field, one
\* with some, one with none; a JSON array; a text that is no JSON.
FullStats == [used_space_mb |-> 100, total_space_mb |-> 1024, available_mb |-> 924,
              usage_percent |-> 10, file_count |-> 7, warning_level |-> "warning"]
SomeStats == [used_space_mb |-> 100, file_count |-> 7]
JsonObject(fields) == [json |-> "object", fields |-> fields]
JsonArray == [json |-> "array", fields |-> EmptyDict]
NotJson == [json |-> "invalid", fields |-> EmptyDict]

CompressorOutcomes ==
    {HttpResponse(200, b) : b \in {JsonObject(FullStats), JsonObject(SomeStats),
                                   JsonObject(EmptyDict), JsonArray, NotJson}}
    \cup {HttpResponse(code, NotJson) : code \in {404, 503}}
    \cup {Timeout, ConnectionError}

ScheduleOutcomes ==
    {HttpResponse(code, NotJson) : code \in {200, 404, 503}} \cup {Timeout, ConnectionError}

\* An entry of health_data['services']; latency tells whether it carries
\* response_time_ms.
Entry(status, message, latency) ==
    [status |-> status, message |-> message, latency |-> latency]

\* Lines 282-318.  total_tasks is -1 when the statistics were not written.
Database(status, message, total_tasks) ==
    [status |-> status, message |-> message, total_tasks |-> total_tasks]

DatabaseProbe(o) ==
    IF client_is_None THEN Database("unhealthy", Msg("client not initialized"), -1)
    ELSE IF o = "ping_raises" THEN Database("unhealthy", Msg("ping"), -1)
    ELSE IF collections_are_None THEN Database("healthy", Msg("ok"), -1)
    ELSE IF o = "count_raises" THEN Database("unhealthy", Msg("count_documents"), -1)
    ELSE IF o = "dbstats_raises"
         THEN Database("unhealthy", Msg("dbStats"), Cardinality(tasks))
    ELSE Database("healthy", Msg("ok"), Cardinality(tasks))

\* Lines 336-343
Storage(storage_data) ==
    [used_mb |-> Get(storage_data, "used_space_mb", 0),
     total_mb |-> Get(storage_data, "total_space_mb", 512),
     available_mb |-> Get(storage_data, "available_mb", 0),
     usage_percent |-> Get(storage_data, "usage_percent", 0),
     file_count |-> Get(storage_data, "file_count", 0),
     warning_level |-> Get(storage_data, "warning_level", "normal")]

\* Lines 321-362: the services entry and the storage section.  A 200 whose
\* body response.json() cannot parse, or parses to something without .get,
\* raises after the healthy entry was written: the except of line 357
\* overwrites the entry, and the storage section stays empty.
CompressorProbe(o) ==
    IF o.kind = "timeout"
    THEN [entry |-> Entry("unhealthy", Msg("timeout"), FALSE), storage |-> EmptyDict]
    ELSE IF o.kind = "error"
    THEN [entry |-> Entry("unhealthy", Msg("ConnectionError"), FALSE), storage |-> EmptyDict]
    ELSE IF o.code # 200
    THEN [entry |-> Entry("unhealthy", HttpMsg(o.code), TRUE), storage |-> EmptyDict]
    ELSE IF o.body.json = "invalid"
    THEN [entry |-> Entry("unhealthy", Msg("JSONDecodeError"), FALSE), storage |-> EmptyDict]
    ELSE IF o.body.json = "array"
    THEN [entry |-> Entry("unhealthy", Msg("AttributeError"), FALSE), storage |-> EmptyDict]
    ELSE [entry |-> Entry("healthy", Msg("ok"), TRUE), storage |-> Storage(o.body.fields)]

MutScheduleProbeBelow500(o) ==
    IF o.kind = "timeout" THEN [status |-> "unhealthy", message |-> <<"timeout", 0>>, latency |-> FALSE]
    ELSE IF o.kind = "error"
         THEN [status |-> "unhealthy", message |-> <<"ConnectionError", 0>>, latency |-> FALSE]
    ELSE IF o.code >= 500
         THEN [status |-> "unhealthy", message |-> <<"HTTP", o.code>>, latency |-> TRUE]
    ELSE [status |-> "healthy", message |-> <<"ok", 0>>, latency |-> TRUE]
\* Lines 365-395
ScheduleProbe(o) ==
    IF o.kind = "timeout" THEN Entry("unhealthy", Msg("timeout"), FALSE)
    ELSE IF o.kind = "error" THEN Entry("unhealthy", Msg("ConnectionError"), FALSE)
    ELSE IF o.code # 200 THEN Entry("unhealthy", HttpMsg(o.code), TRUE)
    ELSE Entry("healthy", Msg("ok"), TRUE)

\* services.get(name, {}).get('status')
StatusOf(services, name) ==
    IF name \in DOMAIN services THEN services[name].status ELSE "None"

MutOverallIgnoresSchedule(database, services) ==
    IF database.status = "healthy" /\ StatusOf(services, "compressor") = "healthy"
    THEN "healthy" ELSE "degraded"
\* Lines 398-404
overall_status(database, services) ==
    IF /\ database.status = "healthy"
       /\ StatusOf(services, "compressor") = "healthy"
       /\ StatusOf(services, "schedule") = "healthy"
    THEN "healthy" ELSE "degraded"

NoHealth == [database |-> Database("", Msg(""), -1), services |-> EmptyDict,
             storage |-> EmptyDict, overall_status |-> ""]

\* Lines 274-406 for an authorized caller: the three probes one after the
\* other, each filling its own section, then the overall status.
MutHealthDataDbRaises(probes) ==
    LET compressor == CompressorProbe(probes.compressor)
        services == ("compressor" :> compressor.entry)
                    @@ ("schedule" :> ScheduleProbe(probes.schedule))
        database == DatabaseProbe(probes.db)
    IN IF database.status = "healthy"
       THEN [database |-> database, services |-> services,
             storage |-> compressor.storage,
             overall_status |-> overall_status(database, services)]
       ELSE NoHealth
health_data(probes) ==
    LET database == DatabaseProbe(probes.db)
        compressor == CompressorProbe(probes.compressor)
        services0 == EmptyDict
        services1 == ("compressor" :> compressor.entry) @@ services0
        services2 == ("schedule" :> ScheduleProbe(probes.schedule)) @@ services1
    IN [database |-> database, services |-> services2, storage |-> compressor.storage,
        overall_status |-> overall_status(database, services2)]

\* The whole handler: the 403, or the report with the 200.  The probes meet
\* the database and the two services in the condition world describes.
SystemHealth ==
    \E secret \in Headers :
        LET report == IF Authorized(secret) THEN health_data(world) ELSE NoHealth
        IN /\ last' = [op |-> "system-health", secret |-> secret,
                       code |-> IF ~Authorized(secret) THEN 403
                                ELSE IF report = NoHealth THEN 500 ELSE 200,
                       error |-> IF Authorized(secret) THEN "" ELSE "unauthorized",
                       health |-> report]
           /\ UNCHANGED <<config, holidays, world, store, batch>>

-----------------------------------------------------------------------------
(* Sorting and paging, as the store does them *)

Min(a, b) == IF a < b THEN a ELSE b

\* The orders .sort('created_at', -1) may return the documents of S in:
\* latest first, documents of equal created_at in any order.
SortedDesc(S) ==
    {f \in [1 .. Cardinality(S) -> S] :
        /\ \A i, j \in 1 .. Cardinality(S) : i # j => f[i] # f[j]
        /\ \A i \in 1 .. Cardinality(S) - 1 : f[i].created_at >= f[i + 1].created_at}

\* .skip(skip).limit(limit) on a sorted result; limit(0) is no limit.
SkipLimit(seq, skip, limit) ==
    IF limit = 0 THEN SubSeq(seq, skip + 1, Len(seq))
    ELSE SubSeq(seq, skip + 1, Min(Len(seq), skip + limit))

-----------------------------------------------------------------------------
(* get_all_files, main.py:175-221 *)

\* Largest page and limit a request names.
MaxPage == 2
MaxLimit == 2

DEFAULT_PAGE == 1
DEFAULT_LIMIT == 50

\* A query argument: absent, the text of an integer, or another text.
Absent == [kind |-> "absent", n |-> 0]
IntText(n) == [kind |-> "int", n |-> n]
OtherText == [kind |-> "text", n |-> 0]

PageArgs == {Absent} \cup {IntText(n) : n \in 0 .. MaxPage}
LimitArgs == {Absent, OtherText} \cup {IntText(n) : n \in 0 .. MaxLimit}

\* int(request.args.get(name, default)); it raises ValueError on OtherText.
IntArg(arg, default) == IF arg.kind = "absent" THEN default ELSE arg.n

\* The requests: every page and limit with the configured secret's text, and
\* the default ones under every other header.
FileRequests ==
    [secret : {"s3cret"}, page : PageArgs, limit : LimitArgs]
    \cup [secret : Headers \ {"s3cret"}, page : {Absent}, limit : {Absent}]

\* Line 189: count_documents({'type': 'compress', 'status': completed})
total_count == Cardinality({t \in tasks : t.type = "compress" /\ t.status = "completed"})

\* Lines 192-196: the filter of the find
HasResultFile(t) ==
    t.type = "compress" /\ t.status = "completed" /\ t.result_file_id # NoOid

\* Lines 203-211: one entry of files
FileEntry(t) ==
    LET file_info == {f \in fs_files : f._id = t.result_file_id}
    IN [_id |-> Str(t._id),
        file_size |-> IF file_info = {} THEN 0 ELSE (CHOOSE f \in file_info : TRUE).length]

FilesError(req, code, msg) ==
    [op |-> "all-files", secret |-> req.secret, page_arg |-> req.page,
     limit_arg |-> req.limit, code |-> code, error |-> msg, files |-> <<>>,
     total |-> 0, page |-> 0, limit |-> 0, total_pages |-> 0, walk |-> FALSE,
     seen |-> <<>>]

\* Whether the request continues a client's walk over the pages 1, 2, ... in
\* turn with one limit, and the ids the walk has been given, this page's last.
Walk(page, limit) ==
    \/ page = 1
    \/ /\ last.op = "all-files" /\ last.code = 200 /\ last.walk
       /\ last.limit = limit /\ last.page + 1 = page

Seen(page, limit, ids) ==
    IF page = 1 THEN ids
    ELSE IF Walk(page, limit) THEN last.seen \o ids
    ELSE <<>>

AllFiles ==
    \E sorted \in SortedDesc({t \in tasks : HasResultFile(t)}) :
      \E req \in FileRequests :
        /\ IF ~Authorized(req.secret) THEN last' = FilesError(req, 403, "unauthorized")
           ELSE IF collections_are_None
                THEN last' = FilesError(req, 500, "database not initialized")
           ELSE IF req.page.kind = "text" \/ req.limit.kind = "text"
                THEN last' = FilesError(req, 500, "ValueError")
           ELSE LET page == IntArg(req.page, DEFAULT_PAGE)
                    limit == IntArg(req.limit, DEFAULT_LIMIT)
                    skip == (page - 1) * limit
                IN IF skip < 0 THEN last' = FilesError(req, 500, "ValueError")
                   ELSE IF limit = 0 THEN last' = FilesError(req, 500, "ZeroDivisionError")
                   ELSE LET found_tasks == SkipLimit(sorted, skip, limit)
                            files == [k \in 1 .. Len(found_tasks) |-> FileEntry(found_tasks[k])]
                        IN last' = [op |-> "all-files", secret |-> req.secret,
                                    page_arg |-> req.page, limit_arg |-> req.limit,
                                    code |-> 200, error |-> "", files |-> files,
                                    total |-> total_count, page |-> page, limit |-> limit,
                                    total_pages |-> (total_count + limit - 1) \div limit,
                                    walk |-> Walk(page, limit),
                                    seen |-> Seen(page, limit,
                                              [k \in 1 .. Len(files) |-> files[k]._id])]
        /\ UNCHANGED <<config, holidays, world, store, batch>>

-----------------------------------------------------------------------------
(* get_compression_stats, main.py:132-151 *)

\* round(num / den, 0) for num, den > 0: to the nearest integer, a half to
\* the even one.
RoundHalfEven(num, den) ==
    LET q == num \div den
        r == num % den
    IN IF 2 * r < den THEN q
       ELSE IF 2 * r > den THEN q + 1
       ELSE IF q % 2 = 0 THEN q ELSE q + 1

RECURSIVE SumLength(_)
SumLength(S) ==
    IF S = {} THEN 0
    ELSE LET f == CHOOSE x \in S : TRUE IN f.length + SumLength(S \ {f})

BytesPerMb == 1024 * 1024

\* The rates are in hundredths: success_rate 6667 is 66.67 (percent).
CompressionStats ==
    \E secret \in Headers :
        /\ IF ~Authorized(secret)
           THEN last' = [op |-> "compression-stats", secret |-> secret, code |-> 403,
                         error |-> "unauthorized"]
           ELSE IF collections_are_None
           THEN last' = [op |-> "compression-stats", secret |-> secret, code |-> 500,
                         error |-> "database not initialized"]
           ELSE LET total_tasks == Cardinality(tasks)
                    completed_tasks == Cardinality({t \in tasks : t.status = "completed"})
                    failed_tasks == Cardinality({t \in tasks : t.status = "failed"})
                    storage_bytes == SumLength(fs_files)
                IN last' = [op |-> "compression-stats", secret |-> secret, code |-> 200,
                            error |-> "", total_tasks |-> total_tasks,
                            completed_tasks |-> completed_tasks,
                            failed_tasks |-> failed_tasks,
                            success_rate |->
                                IF total_tasks > 0
                                THEN RoundHalfEven(completed_tasks * 10000, total_tasks)
                                ELSE 0,
                            storage_used_bytes |-> storage_bytes,
                            storage_used_mb |-> RoundHalfEven(storage_bytes * 100, BytesPerMb)]
        /\ UNCHANGED <<config, holidays, world, store, batch>>

-----------------------------------------------------------------------------
(* get_active_tasks, main.py:155-171 *)

\* timedelta(minutes=10), created_at counting minutes; .limit(20)
ACTIVE_WINDOW == 10
ACTIVE_LIMIT == 20

ActiveTasks ==
    \E secret \in Headers, now \in {ACTIVE_WINDOW, ACTIVE_WINDOW + NumTasks} :
        LET recent_time == now - ACTIVE_WINDOW
            recent == {t \in tasks :
                         /\ t.created_at >= recent_time
                         /\ t.status \in {"processing", "waiting", "completed", "failed"}}
        IN /\ IF ~Authorized(secret)
              THEN last' = [op |-> "active-tasks", secret |-> secret, code |-> 403,
                            error |-> "unauthorized", active_tasks |-> <<>>]
              ELSE IF collections_are_None
              THEN last' = [op |-> "active-tasks", secret |-> secret, code |-> 500,
                            error |-> "database not initialized", active_tasks |-> <<>>]
              ELSE \E sorted \in SortedDesc(recent) :
                     last' = [op |-> "active-tasks", secret |-> secret, code |-> 200,
                              error |-> "",
                              active_tasks |-> SkipLimit(sorted, 0, ACTIVE_LIMIT)]
           /\ UNCHANGED <<config, holidays, world, store, batch>>

-----------------------------------------------------------------------------
(* get_holidays and update_holiday, main.py:102-128 *)

\* A text is the sequence of its characters.  A query argument is absent or
\* carries a text, the empty one included.
NoArg == [present |-> FALSE, text |-> <<>>]
Arg(text) == [present |-> TRUE, text |-> text]

\* Holiday identifiers, in the canonical form YYYYMMDD.
NewYear2025 == <<"2", "0", "2", "5", "0", "1", "0", "1">>
Singles2025 == <<"2", "0", "2", "5", "1", "1", "1", "1">>
NewYear2024 == <<"2", "0", "2", "4", "0", "1", "0", "1">>
HolidayIds == {NewYear2025, Singles2025, NewYear2024}

HolidayNames == {"holiday", "workday"}

holidays_collection_is_None == startup # "ok"

\* The year and month arguments a client may send: digits, and the
\* characters "." "(" "-" that a URL carries as well.
YearArgs ==
    {NoArg, Arg(<<>>), Arg(<<"2", "0", "2", "5">>), Arg(<<"2", "0", "2", "4">>),
     Arg(<<"2", "0">>), Arg(<<"2", "0", "2", ".">>), Arg(<<"(">>)}
MonthArgs ==
    {NoArg, Arg(<<>>), Arg(<<"1">>), Arg(<<"0", "1">>), Arg(<<"1", "1">>),
     Arg(<<"2", "5">>), Arg(<<".">>), Arg(<<"-">>)}

\* `not year`: the argument is absent or empty.
Falsy(arg) == ~arg.present \/ arg.text = <<>>

MonthWidth == 2

\* str.zfill(width): zeros on the left up to the width, after a leading sign.
Zfill(text, width) ==
    IF Len(text) >= width THEN text
    ELSE LET zeros == [i \in 1 .. width - Len(text) |-> "0"]
         IN IF text # <<>> /\ text[1] \in {"+", "-"}
            THEN <<text[1]>> \o zeros \o Tail(text)
            ELSE zeros \o text

\* Line 110: f"^{year}{str(month).zfill(2)}"
query_pattern(year, month) == <<"^">> \o year \o Zfill(month, MonthWidth)

\* The store compiles the pattern as a regular expression: a "(" that is
\* never closed is refused.
RegexCompiles(pattern) == \A i \in 1 .. Len(pattern) : pattern[i] # "("

\* The atoms of the pattern from position i on match the text from position
\* j on: "." stands for any character, a digit or "-" for itself.
RECURSIVE MatchesAt(_, _, _, _)
MatchesAt(pattern, i, text, j) ==
    IF i > Len(pattern) THEN TRUE
    ELSE IF j > Len(text) THEN FALSE
    ELSE /\ pattern[i] = "." \/ pattern[i] = text[j]
         /\ MatchesAt(pattern, i + 1, text, j + 1)

\* {"$regex": pattern}: the pattern is found somewhere in the text; a leading
\* "^" binds it to the text's start.
RegexSearch(pattern, text) ==
    IF pattern # <<>> /\ pattern[1] = "^"
    THEN MatchesAt(pattern, 2, text, 1)
    ELSE \E j \in 1 .. Len(text) + 1 : MatchesAt(pattern, 1, text, j)

\* holidays_collection.find({"_id": {"$regex": pattern}})
find_regex(coll, pattern) == {d \in coll : RegexSearch(pattern, d._id)}

HolidaysError(year, month, code, msg) ==
    [op |-> "get_holidays", year |-> year, month |-> month, code |-> code,
     error |-> msg, records |-> {}]

\* The whole handler, lines 104-113.
GetHolidays ==
    \E year \in YearArgs, month \in MonthArgs :
        /\ IF holidays_collection_is_None
           THEN last' = HolidaysError(year, month, 500, "collection not initialized")
           ELSE IF Falsy(year) \/ Falsy(month)
           THEN last' = HolidaysError(year, month, 400, "year or month missing")
           ELSE LET pattern == query_pattern(year.text, month.text)
                IN IF ~RegexCompiles(pattern)
                   THEN last' = HolidaysError(year, month, 500, "OperationFailure")
                   ELSE last' = [op |-> "get_holidays", year |-> year, month |-> month,
                                 code |-> 200, error |-> "",
                                 records |-> find_regex(holidays, pattern)]
        /\ UNCHANGED <<config, holidays, world, store, batch>>

\* The bodies of update_holiday: an empty object, an object without _id, an
\* object with _id and one attribute.
HolidayBodies ==
    {[id |-> NoArg, name |-> "none"], [id |-> NoArg, name |-> "holiday"]}
    \cup {[id |-> Arg(h), name |-> n] : h \in HolidayIds, n \in HolidayNames}

\* update_one({"_id": doc_id}, {"$set": update_data}, upsert=True)
update_one_upsert(coll, id, name) ==
    {d \in coll : d._id # id} \cup {[_id |-> id, name |-> name]}

\* The whole handler, lines 117-128.
UpdateHoliday ==
    \E data \in HolidayBodies :
        IF holidays_collection_is_None
        THEN /\ last' = [op |-> "update_holiday", data |-> data, code |-> 500,
                         message |-> "collection not initialized"]
             /\ UNCHANGED <<config, holidays, world, store, batch>>
        ELSE IF ~data.id.present
        THEN /\ last' = [op |-> "update_holiday", data |-> data, code |-> 400,
                         message |-> "invalid request data"]
             /\ UNCHANGED <<config, holidays, world, store, batch>>
        ELSE LET doc == [_id |-> data.id.text, name |-> data.name]
             IN /\ holidays' = update_one_upsert(holidays, data.id.text, data.name)
                /\ last' = [op |-> "update_holiday", data |-> data, code |-> 200,
                            message |-> IF doc \in holidays THEN "unchanged" ELSE "saved"]
                /\ UNCHANGED <<config, world, store, batch>>

-----------------------------------------------------------------------------
NoLast == [op |-> "none", code |-> 0]

InitConfig ==
    /\ ADMIN_SECRET \in Secrets \cup {None}
    /\ startup \in Startups

\* Everything the probes reach answers, and every condition they may meet.
HealthyWorld == [db |-> "ok", compressor |-> HttpResponse(200, JsonObject(FullStats)),
                 schedule |-> HttpResponse(200, NotJson)]
Worlds == [db : DbOutcomes, compressor : CompressorOutcomes, schedule : ScheduleOutcomes]

InitBatch ==
    /\ pc = [c \in Callers |-> "idle"]
    /\ request = [c \in Callers |-> NoRequest]
    /\ found = [c \in Callers |-> {}]
    /\ cursor = [c \in Callers |-> {}]
    /\ task = [c \in Callers |-> NoTask]
    /\ deleted_count = [c \in Callers |-> 0]
    /\ response = [c \in Callers |-> NoResponse]

InitLedger ==
    \E l \in InitialLedgers :
         /\ tasks = {IF l[i] = "done" THEN Completed(i) ELSE Failed(i) : i \in 1 .. NumTasks}
         /\ fs_files = {FileDoc(BlobOid(i), i) : i \in {j \in 1 .. NumTasks : l[j] = "done"}}
         /\ fs_chunks = UNION {ChunksOf(BlobOid(i)) : i \in {j \in 1 .. NumTasks : l[j] = "done"}}

Init ==
    /\ InitConfig
    /\ world = HealthyWorld
    /\ InitBatch
    /\ InitLedger
    /\ holidays = {}
    /\ last = NoLast

\* One step of the batch deletion caller c runs.
BatchDelete(c) ==
    \/ Begin(c)
    \/ Find(c)
    \/ DeleteFile(c)
    \/ DeleteChunks(c)
    \/ DeleteTask(c)
    \/ StoreError(c)
    \/ Crash(c)

\* Batch deletions side by side.
Next == \E c \in Callers : BatchDelete(c)

Spec == Init /\ [][Next]_vars

\* The health report alone, over every combination of probe outcomes.
InitHealth ==
    /\ InitConfig
    /\ world \in Worlds
    /\ InitBatch
    /\ InitLedger
    /\ holidays = {}
    /\ last = NoLast

NextHealth == SystemHealth

SpecHealth == InitHealth /\ [][NextHealth]_vars

\* The file listing alone, over ledgers of tasks of every kind: completed
\* with a result file (its blob stored or lost), completed without one,
\* failed, and of another type; created at distinct or at equal times.
TaskKinds == {"file", "lost", "nofile", "failed", "other"}

KindDoc(i, kind, at) ==
    IF kind \in {"file", "lost"} THEN TaskDoc(i, "compress", "completed", at, BlobOid(i))
    ELSE IF kind = "nofile" THEN TaskDoc(i, "compress", "completed", at, NoOid)
    ELSE IF kind = "failed" THEN TaskDoc(i, "compress", "failed", at, NoOid)
    ELSE TaskDoc(i, "other", "completed", at, BlobOid(i))

InitFiles ==
    /\ InitConfig
    /\ world = HealthyWorld
    /\ InitBatch
    /\ \E kind \in [1 .. NumTasks -> TaskKinds], at \in [1 .. NumTasks -> 1 .. 2] :
         /\ tasks = {KindDoc(i, kind[i], at[i]) : i \in 1 .. NumTasks}
         /\ fs_files = {FileDoc(BlobOid(i), i) :
                          i \in {j \in 1 .. NumTasks : kind[j] \in {"file", "other"}}}
         /\ fs_chunks = UNION {ChunksOf(BlobOid(i)) :
                          i \in {j \in 1 .. NumTasks : kind[j] \in {"file", "other"}}}
    /\ holidays = {}
    /\ last = NoLast

NextFiles == AllFiles

SpecFiles == InitFiles /\ [][NextFiles]_vars

\* Every admin operation, beside one batch deletion, on a ledger of one
\* completed task.
InitAdmin ==
    /\ InitConfig
    /\ world = HealthyWorld
    /\ InitBatch
    /\ tasks = {Completed(1)}
    /\ fs_files = {FileDoc(BlobOid(1), 1)}
    /\ fs_chunks = ChunksOf(BlobOid(1))
    /\ holidays = {}
    /\ last = NoLast

NextAdmin ==
    \/ BatchDelete("c1")
    \/ CompressionStats
    \/ ActiveTasks
    \/ AllFiles
    \/ SystemHealth

SpecAdmin == InitAdmin /\ [][NextAdmin]_vars

\* The holiday calendar alone, filled by update_holiday and read by
\* get_holidays.
InitHolidays ==
    /\ InitConfig
    /\ world = HealthyWorld
    /\ InitBatch
    /\ tasks = {Completed(1)}
    /\ fs_files = {FileDoc(BlobOid(1), 1)}
    /\ fs_chunks = ChunksOf(BlobOid(1))
    /\ holidays = {}
    /\ last = NoLast

NextHolidays == GetHolidays \/ UpdateHoliday

SpecHolidays == InitHolidays /\ [][NextHolidays]_vars

\* Batch deletions side by side on a store that answers every operation: the
\* steps of the two calls in every order.
RunBatchDelete(c) ==
    \/ Begin(c)
    \/ Find(c)
    \/ DeleteFile(c)
    \/ DeleteChunks(c)
    \/ DeleteTask(c)

NextRace == \E c \in Callers : RunBatchDelete(c)

SpecRace == Init /\ [][NextRace]_vars

\* One batch deletion alone, with the store failures and the crash it may
\* meet at any step.
NextSolo == BatchDelete("c1")

SpecSolo == Init /\ [][NextSolo]_vars

-----------------------------------------------------------------------------
(* Properties of the batch deletion *)

\* The request carries the X-Admin-Secret header, equal to the configured
\* secret.
SecretMatches(secret) == secret # None /\ secret = ADMIN_SECRET

FilePresent(b) == \E f \in fs_files : f._id = b
ChunkPresent(b) == \E d \in fs_chunks : d.files_id = b

\* The blob ids something of which is still stored.
StoredBlobs == {f._id : f \in fs_files} \cup {d.files_id : d \in fs_chunks}

\* The call returned normally / returned the 500 of a store failure.
Returned(c) == pc[c] = "done"
Succeeded(c) == Returned(c) /\ response[c].code = 200
StoreFailed(c) == Returned(c) /\ response[c].error = "PyMongoError"

\* The call reached the core operation: authorized, the collections set, a
\* JSON object as body.
Admitted(req) ==
    SecretMatches(req.secret) /\ ~collections_are_None /\ req.json # "null"

\* C1: at every moment of every batch deletion, also after a crash or a store
\* failure at any step, every blob of which a metadata record or a chunk is
\* still stored belongs to a task record that is still there.
C1_NoOrphanBlob ==
    \A b \in StoredBlobs : \E t \in tasks : t.result_file_id = b

\* A call met a store failure, or crashed past the blob deletion of its
\* current task, after it had deleted another task and its blob.
C1_Witness ==
    \E c \in Callers :
        /\ pc[c] = "crashed" \/ StoreFailed(c)
        /\ deleted_count[c] >= 1
        /\ pc[c] = "crashed" => task[c].result_file_id # NoOid /\ ~FilePresent(task[c].result_file_id)

\* C2: when a batch deletion with a non-empty id set returns successfully,
\* none of the task records it found is left, and of every blob such a task
\* referred to neither the metadata record nor any chunk is left.
C2_SuccessRemovesAll ==
    \A c \in Callers :
        Succeeded(c) =>
            \A t \in found[c] :
                /\ t \notin tasks
                /\ \A u \in tasks : u._id # t._id
                /\ t.result_file_id # NoOid =>
                     /\ ~FilePresent(t.result_file_id)
                     /\ ~ChunkPresent(t.result_file_id)

\* A successful call that found a task with a blob.
C2_Witness ==
    \E c \in Callers :
        /\ Succeeded(c)
        /\ \E t \in found[c] : t.result_file_id # NoOid
        /\ request[c].task_ids # {}

\* The ids of the request that resolved to a task record.
Resolved(c) == {tid \in request[c].task_ids : \E t \in found[c] : Str(t._id) = tid}

\* C3 as stated: a call with a non-empty id set some ids of which resolve to
\* no task record, and that meets no store failure, returns successfully with
\* deleted_count the number of ids that resolved.
C3_UnresolvedIdsSkipped ==
    \A c \in Callers :
        ( /\ Returned(c)
          /\ Admitted(request[c])
          /\ request[c].task_ids # {}
          /\ ~StoreFailed(c) )
        => /\ response[c].code = 200
           /\ response[c].deleted_count = Cardinality(Resolved(c))

\* C3 amended: the same for id sets of well-formed ids only; a call whose id
\* set holds a malformed id returns the 500 and has found and deleted nothing.
C3_WellFormedUnresolvedIdsSkipped ==
    \A c \in Callers :
        ( /\ Returned(c)
          /\ Admitted(request[c])
          /\ request[c].task_ids # {}
          /\ ~StoreFailed(c) )
        => IF \A tid \in request[c].task_ids : IsValidOid(tid)
           THEN /\ response[c].code = 200
                /\ response[c].deleted_count = Cardinality(Resolved(c))
                /\ \A t \in found[c] : Str(t._id) \in request[c].task_ids
           ELSE /\ response[c].code = 500
                /\ found[c] = {}
                /\ deleted_count[c] = 0

\* A successful call one id of which resolved, to a task without a blob, and
\* one id of which did not.
C3_Witness ==
    \E c \in Callers :
        /\ Succeeded(c)
        /\ response[c].deleted_count = 1
        /\ \E t \in found[c] : t.result_file_id = NoOid
        /\ Cardinality(request[c].task_ids) = 2

\* C4: a batch deletion called with an empty task_ids, or a body without the
\* field, returns the 400 error at once and leaves the tasks, the blob
\* metadata and the chunks as they were.
C4_EmptyIsInvalidArgument ==
    [][\A c \in Callers :
        ( /\ pc[c] = "idle"
          /\ pc'[c] # "idle"
          /\ Admitted(request'[c])
          /\ request'[c].task_ids = {} )
        => /\ pc'[c] = "done"
           /\ response'[c].code = 400
           /\ response'[c].error # ""
           /\ store' = store]_vars

\* Both shapes of the empty input have been answered with the 400.
C4_Witness ==
    /\ \E c \in Callers : response[c].code = 400 /\ request[c].json = "object"
    /\ \E c \in Callers : response[c].code = 400 /\ request[c].json = "task_ids"

BlobPresent(b) == FilePresent(b) /\ \A k \in 0 .. MaxChunks - 1 :
                      [files_id |-> b, n |-> k] \in fs_chunks

\* A task record whose result_file_id names a blob that is not (wholly) there.
Dangling(t) == t.result_file_id # NoOid /\ ~BlobPresent(t.result_file_id)

\* C9 as stated: every task record that carries a result_file_id refers to a
\* blob that still exists.
C9_BlobOutlivesTask == \A t \in tasks : ~Dangling(t)

\* C9 amended: a task record's blob is missing only while that task is the
\* current one of a batch deletion that is past its blob deletion, or that
\* crashed or met a store failure there.
C9_DanglingOnlyCurrentTask ==
    \A t \in tasks :
        Dangling(t) =>
            \E c \in Callers :
                /\ task[c] = t
                /\ pc[c] \in {"delete_chunks", "delete_task", "crashed"} \/ StoreFailed(c)

\* A call was interrupted after its blob deletion: the record dangles, while
\* the other task's blob is whole.
C9_Witness ==
    /\ \E t \in tasks : Dangling(t) /\ \E c \in Callers : task[c] = t /\ pc[c] = "crashed"
    /\ \E t \in tasks : t.result_file_id # NoOid /\ ~Dangling(t)

-----------------------------------------------------------------------------
(* Properties of the health report *)

\* The last request was a system-health call that returned its report.
Reported == last.op = "system-health" /\ last.code = 200

\* The database probe raises: the ping, or a statistic it goes on to read.
DbProbeThrows ==
    /\ ~client_is_None
    /\ \/ world.db = "ping_raises"
       \/ ~collections_are_None /\ world.db \in {"count_raises", "dbstats_raises"}

\* C5: whatever the three probes meet, the report's overall status is
\* 'healthy' exactly when the database section and both services entries are
\* 'healthy', and 'degraded' otherwise; it is never anything else.
C5_OverallHealthyIffAll ==
    Reported =>
        LET h == last.health
        IN /\ h.overall_status \in {"healthy", "degraded"}
           /\ h.overall_status = "healthy" <=>
                /\ h.database.status = "healthy"
                /\ "compressor" \in DOMAIN h.services
                /\ h.services["compressor"].status = "healthy"
                /\ "schedule" \in DOMAIN h.services
                /\ h.services["schedule"].status = "healthy"

\* A report that is degraded with only the schedule service failing.
C5_Witness ==
    /\ Reported
    /\ last.health.overall_status = "degraded"
    /\ last.health.database.status = "healthy"
    /\ last.health.services["compressor"].status = "healthy"
    /\ last.health.services["schedule"].status = "unhealthy"

\* C6: an authorized system-health call always returns its report, whatever
\* the probes meet; the report has a database status and an entry of its own
\* for the compressor and for the schedule service, each telling what that
\* probe met; and when the database probe raises, the database status is
\* 'unhealthy'.
C6_ProbesIsolated ==
    (last.op = "system-health" /\ SecretMatches(last.secret)) =>
        /\ last.code = 200
        /\ last.health.database.status \in {"healthy", "unhealthy"}
        /\ DbProbeThrows => last.health.database.status = "unhealthy"
        /\ DOMAIN last.health.services = {"compressor", "schedule"}
        /\ last.health.services["schedule"].status \in {"healthy", "unhealthy"}
        /\ last.health.services["schedule"].status = "healthy"
             <=> (world.schedule.kind = "response" /\ world.schedule.code = 200)
        /\ last.health.services["compressor"].status \in {"healthy", "unhealthy"}
        /\ last.health.services["compressor"].status = "healthy"
             <=> /\ world.compressor.kind = "response"
                 /\ world.compressor.code = 200
                 /\ world.compressor.body.json = "object"

\* The database probe raised, the compressor timed out, and the schedule
\* probe still found its service healthy.
C6_Witness ==
    /\ Reported
    /\ DbProbeThrows
    /\ world.compressor.kind = "timeout"
    /\ last.health.services["schedule"].status = "healthy"
    /\ last.health.services["compressor"].status = "unhealthy"

\* What the classification by the probe outcome alone gives an entry.
ClassifiedByOutcome(o, e) ==
    /\ (o.kind = "response" /\ o.code = 200) => e.status = "healthy"
    /\ (o.kind = "response" /\ o.code # 200) =>
          e.status = "unhealthy" /\ e.message = HttpMsg(o.code)
    /\ o.kind = "timeout" =>
          e.status = "unhealthy" /\ e.message = Msg("timeout") /\ ~e.latency
    /\ o.kind = "error" =>
          e.status = "unhealthy" /\ e.message = Msg("ConnectionError")

\* The storage section holds, field by field, the body's value or the default.
StorageFrom(fields, storage) ==
    /\ DOMAIN storage = {"used_mb", "total_mb", "available_mb", "usage_percent",
                         "file_count", "warning_level"}
    /\ storage.used_mb =
         IF "used_space_mb" \in DOMAIN fields THEN fields.used_space_mb ELSE 0
    /\ storage.total_mb =
         IF "total_space_mb" \in DOMAIN fields THEN fields.total_space_mb ELSE 512
    /\ storage.available_mb =
         IF "available_mb" \in DOMAIN fields THEN fields.available_mb ELSE 0
    /\ storage.usage_percent =
         IF "usage_percent" \in DOMAIN fields THEN fields.usage_percent ELSE 0
    /\ storage.file_count =
         IF "file_count" \in DOMAIN fields THEN fields.file_count ELSE 0
    /\ storage.warning_level =
         IF "warning_level" \in DOMAIN fields THEN fields.warning_level ELSE "normal"

\* C7 as stated: each service entry is classified by the probe outcome alone,
\* and a 200 from the compressor whose body lacks storage fields or is
\* unusable leaves the entry 'healthy' with the defaults in the storage section.
C7_ClassifiedByOutcomeAlone ==
    Reported =>
        /\ ClassifiedByOutcome(world.compressor, last.health.services["compressor"])
        /\ ClassifiedByOutcome(world.schedule, last.health.services["schedule"])
        /\ (world.compressor.kind = "response" /\ world.compressor.code = 200) =>
              StorageFrom(world.compressor.body.fields, last.health.storage)

\* C7 amended: the schedule entry is classified by the probe outcome alone;
\* so is the compressor entry, except that a 200 whose body is not a JSON
\* object gives 'unhealthy' with the parse error as message, no latency, and
\* an empty storage section.  A 200 whose body is a JSON object gives
\* 'healthy', with the default for every storage field the body lacks.
C7_ClassifiedUnlessBodyUnusable ==
    Reported =>
        LET o == world.compressor
            e == last.health.services["compressor"]
        IN /\ ClassifiedByOutcome(world.schedule, last.health.services["schedule"])
           /\ IF o.kind = "response" /\ o.code = 200 /\ o.body.json # "object"
              THEN /\ e.status = "unhealthy"
                   /\ e.message \in {Msg("JSONDecodeError"), Msg("AttributeError")}
                   /\ ~e.latency
                   /\ last.health.storage = EmptyDict
              ELSE /\ ClassifiedByOutcome(o, e)
                   /\ (o.kind = "response" /\ o.code = 200) =>
                         /\ e.latency
                         /\ StorageFrom(o.body.fields, last.health.storage)
                   /\ ~(o.kind = "response" /\ o.code = 200) =>
                         last.health.storage = EmptyDict

\* The compressor answered 200 with some storage fields missing while the
\* schedule service answered with another status code.
C7_Witness ==
    /\ Reported
    /\ world.compressor = HttpResponse(200, JsonObject(SomeStats))
    /\ last.health.storage.total_mb = 512
    /\ last.health.storage.used_mb = 100
    /\ world.schedule.kind = "response" /\ world.schedule.code = 404
    /\ last.health.services["schedule"].message = HttpMsg(404)

-----------------------------------------------------------------------------
(* Properties of the file listing *)

\* The completed files: the tasks the listing is about.
CompletedFiles == {Str(t._id) : t \in {u \in tasks : HasResultFile(u)}}

Ceil(a, b) == IF a % b = 0 THEN a \div b ELSE a \div b + 1

\* C8: over an unchanging task collection and for any limit >= 1, every
\* response reports total_pages = ceil(total / limit) with total the number
\* of completed files, and the pages 1 .. total_pages, asked for in turn,
\* hold every completed file exactly once.
C8_PagesReproduceFiles ==
    (last.op = "all-files" /\ last.code = 200) =>
        /\ last.total_pages = Ceil(Cardinality(CompletedFiles), last.limit)
        /\ (last.walk /\ last.page = last.total_pages) =>
              /\ {last.seen[k] : k \in 1 .. Len(last.seen)} = CompletedFiles
              /\ Len(last.seen) = Cardinality(CompletedFiles)

-----------------------------------------------------------------------------
(* Properties of the admin guard *)

\* C10: every admin operation called with the X-Admin-Secret header absent
\* or different from the configured secret returns the 403 at once and
\* changes nothing in the store; a batch deletion so called never reaches a
\* store operation.
C10_UnauthorizedIs403 ==
    /\ [][/\ (last' # last /\ ~SecretMatches(last'.secret)) =>
               /\ last'.code = 403
               /\ last'.error = "unauthorized"
               /\ store' = store
          /\ \A c \in Callers :
               (pc[c] = "idle" /\ pc'[c] # "idle" /\ ~SecretMatches(request'[c].secret)) =>
                   /\ pc'[c] = "done"
                   /\ response'[c] = Error(403, "unauthorized")
                   /\ store' = store]_vars
    /\ [](\A c \in Callers :
            pc[c] \in Running \cup {"crashed"} => SecretMatches(request[c].secret))

\* A batch deletion naming the task was refused while the task and its blob
\* are still stored, and so was the last of the other operations.
C10_Witness ==
    /\ \E c \in Callers :
         /\ response[c].code = 403
         /\ request[c].task_ids = WellFormedIds
         /\ Completed(1) \in tasks /\ BlobPresent(BlobOid(1))
    /\ last.op \in {"compression-stats", "active-tasks", "all-files", "system-health"}
    /\ last.code = 403

-----------------------------------------------------------------------------
(* Properties of the holiday query *)

\* The text begins with the prefix, character for character.
HasPrefix(text, prefix) ==
    /\ Len(text) >= Len(prefix)
    /\ \A i \in 1 .. Len(prefix) : text[i] = prefix[i]

\* The literal prefix of a query: the year, then the month padded with zeros
\* to two characters.
PrefixOf(year, month) ==
    year \o (IF Len(month) >= 2 THEN month
             ELSE IF month = <<"-">> THEN <<"-", "0">> ELSE <<"0">> \o month)

\* C11: for every year and month supplied, get_holidays returns exactly the
\* holiday records whose identifier begins with the year followed by the
\* month padded to two digits, and no record that matches it only in part.
C11_QueryReturnsExactPrefix ==
    ( /\ last.op = "get_holidays"
      /\ ~holidays_collection_is_None
      /\ ~Falsy(last.year) /\ ~Falsy(last.month) )
    => /\ last.code = 200
       /\ last.records = {h \in holidays :
                            HasPrefix(h._id, PrefixOf(last.year.text, last.month.text))}

-----------------------------------------------------------------------------
(* Properties of batch deletions side by side *)

\* The ids either call names.
NamedIds == UNION {request[c].task_ids : c \in Callers}

\* Of task i nothing is left: no record, no blob metadata, no chunk.
NothingLeftOf(i) ==
    /\ \A t \in tasks : t._id # TaskOid(i)
    /\ ~FilePresent(BlobOid(i))
    /\ ~ChunkPresent(BlobOid(i))

\* C12: when two batch deletions run side by side on id sets that overlap,
\* whatever the order of their store operations, neither is ever held up or
\* ends with an error, and once both have returned none of the tasks either
\* named is left, nor its blob metadata, nor any of its chunks.
C12_OverlappingCallsBothSucceed ==
    /\ \A c \in Callers :
         /\ pc[c] \in Running =>
              ENABLED (Find(c) \/ DeleteFile(c) \/ DeleteChunks(c) \/ DeleteTask(c))
         /\ ( /\ pc[c] \in Running \cup {"done"}
              /\ Admitted(request[c])
              /\ request[c].task_ids # {}
              /\ \A tid \in request[c].task_ids : IsValidOid(tid) )
            => /\ response[c].error = ""
               /\ Returned(c) => response[c].code = 200
    /\ (\A c \in Callers : Succeeded(c)) =>
         \A i \in 1 .. NumTasks : Hex(i) \in NamedIds => NothingLeftOf(i)

\* Both calls returned successfully after each had found, before the other
\* deleted it, the same task with a blob; their id sets overlap without being
\* equal, and both count that task as deleted.
C12_Witness ==
    /\ \A c \in Callers : Succeeded(c)
    /\ request["c1"].task_ids # request["c2"].task_ids
    /\ \E t \in found["c1"] \cap found["c2"] : t.result_file_id # NoOid
    /\ \A c \in Callers : response[c].deleted_count = Cardinality(found[c])
    /\ \E c \in Callers : Cardinality(found[c]) = 2

-----------------------------------------------------------------------------
(* Properties of one batch deletion alone *)

\* The task record is there and its blob, if it has one, is whole.
Untouched(t) ==
    /\ t \in tasks
    /\ t.result_file_id # NoOid => BlobPresent(t.result_file_id)

\* Neither the task record nor anything of its blob is there.
FullyDeleted(t) ==
    /\ \A u \in tasks : u._id # t._id
    /\ t.result_file_id # NoOid =>
         ~FilePresent(t.result_file_id) /\ ~ChunkPresent(t.result_file_id)

\* The tasks the call found, but for the one of its current iteration.
OtherFound == found["c1"] \ {task["c1"]}

\* C13: while one batch deletion runs alone on a store that was consistent,
\* and after a store failure or a crash at any step, at most one task record
\* refers to a blob already deleted, and it is the task of the current
\* iteration; the tasks of the earlier iterations, as many as deleted_count
\* says, are fully deleted, and those the cursor still holds, like every task
\* outside the batch, have their blob whole.
C13_AtMostOneDanglingTask ==
    /\ Cardinality({t \in tasks : Dangling(t)}) <= 1
    /\ \A t \in tasks : Dangling(t) => t = task["c1"] /\ t \in found["c1"]
    /\ \A t \in OtherFound : Untouched(t) \/ FullyDeleted(t)
    /\ \A t \in cursor["c1"] : Untouched(t)
    /\ Cardinality({t \in OtherFound : FullyDeleted(t)}) = deleted_count["c1"]
    /\ pc["c1"] \in Running =>
         Cardinality(cursor["c1"]) + deleted_count["c1"] = Cardinality(OtherFound)

\* The call met a store failure between the blob deletion and the record
\* deletion of its second task: that record dangles, the first task is fully
\* deleted.
C13_Witness ==
    /\ StoreFailed("c1")
    /\ task["c1"] \in tasks
    /\ Dangling(task["c1"])
    /\ ~FilePresent(task["c1"].result_file_id)
    /\ deleted_count["c1"] = 1
    /\ \E t \in OtherFound : t.result_file_id # NoOid /\ FullyDeleted(t)

====
